---- MODULE Spec2Model ----
(***************************************************************************)
(* Boot sequence of the chat backend: Application.initialize (app.ts),     *)
(* the storage connection manager (setupDatabase.ts) and ChattyServer      *)
(* (setupServer.ts).                                                       *)
(*                                                                         *)
(* Node runs one task at a time to completion.  The synchronous boot is    *)
(* a chain of steps driven by pc; the continuation of the async            *)
(* startServer is driven by ssPc.  I/O completions (storage connect        *)
(* results, broker connect results, driver 'disconnected' events, the      *)
(* listen callback) are delivered only when no synchronous code is         *)
(* runnable (Idle).                                                        *)
(***************************************************************************)
EXTENDS Integers, Sequences, FiniteSets

\* Number of 'disconnected' events the storage driver may deliver.
MaxDisconnects == 2

\* Number of persistent connections the transport server may accept.
MaxSessions == 2

\* Number of HTTP requests the listener may receive.
MaxRequests == 1

\* setupServer.ts:23
SERVER_PORT == 6000

\* setupServer.ts:79, HTTP_STATUS.NOT_FOUND
NOT_FOUND == 404

\* setupServer.ts:59, optionsSuccessStatus
OptionsSuccessStatus == 200

VARIABLES
  pc,            \* position in Application.initialize / ChattyServer.start
  attempts,      \* storage connect attempts, in issue order: "pending" | "ok" | "failed"
  listeners,     \* number of listeners registered for the driver's 'disconnected' event
  disconnects,   \* number of 'disconnected' events delivered so far
  middleware,    \* stages registered on the express app, in registration order
  httpServer,    \* "none" | "created" | "listenCalled" | "listening"
  boundPort,     \* port handed to httpServer.listen (0 = none)
  io,            \* socket.io server: [created, adapter, hooked]
  pubClient,     \* "none" | "connecting" | "connected" | "failed"
  subClient,     \* "none" | "connecting" | "connected" | "failed"
  promiseAll,    \* "none" | "pending" | "fulfilled" | "rejected"
  ssPc,          \* position of the async startServer
  exited,        \* process.exit has been called
  exitCode,      \* code passed to process.exit
  log,           \* log records emitted, in order
  storageTrace,  \* states the storage connection has moved through, in order
  connectionListeners, \* number of 'connection' listeners registered on io
  sessions,      \* persistent connections accepted so far
  hookCalls,     \* invocations of a session connect callback so far
  req,           \* the HTTP request being handled (or the last one handled)
  served         \* number of HTTP requests received so far

vars == <<pc, attempts, listeners, disconnects, middleware, httpServer, boundPort,
          io, pubClient, subClient, promiseAll, ssPc, exited, exitCode, log,
          storageTrace, connectionListeners, sessions, hookCalls, req, served>>

storageVars == <<attempts, listeners, disconnects, storageTrace>>
serverVars == <<middleware, httpServer, boundPort, io, pubClient, subClient, promiseAll, ssPc>>
exitVars == <<exited, exitCode>>
httpVars == <<connectionListeners, sessions, hookCalls, req, served>>

\* An error value travelling through the express pipeline.
NoError == [kind |-> "none", statusCode |-> 0, body |-> ""]

\* A response nobody has written yet.
NoResponse == [sent |-> FALSE, status |-> 0, body |-> ""]

\* No request is being handled.
NoRequest ==
  [state |-> "none", method |-> "", url |-> "", oversize |-> FALSE, idx |-> 0,
   err |-> NoError, raised |-> NoError, res |-> NoResponse, visited |-> <<>>,
   events |-> <<>>]

LogRec(logger, level, msg) == [logger |-> logger, level |-> level, msg |-> msg]

Emit(logger, level, msg) == log' = Append(log, LogRec(logger, level, msg))

Logged(logger, level, msg) == \E k \in 1..Len(log) : log[k] = LogRec(logger, level, msg)

Init ==
  /\ pc = "initialize"
  /\ attempts = <<>>
  /\ listeners = 0
  /\ disconnects = 0
  /\ middleware = <<>>
  /\ httpServer = "none"
  /\ boundPort = 0
  /\ io = [created |-> FALSE, adapter |-> FALSE, hooked |-> FALSE]
  /\ pubClient = "none"
  /\ subClient = "none"
  /\ promiseAll = "none"
  /\ ssPc = "notStarted"
  /\ exited = FALSE
  /\ exitCode = 0
  /\ log = <<>>
  /\ storageTrace = <<"Disconnected">>
  /\ connectionListeners = 0
  /\ sessions = 0
  /\ hookCalls = 0
  /\ req = NoRequest
  /\ served = 0

\* No synchronous code or promise continuation is runnable: the event loop
\* may deliver the next I/O completion.
Idle ==
  /\ ~exited
  /\ pc = "idle"
  /\ ssPc \in {"awaitCreateSocketIO", "done"}

----
\* setupDatabase.ts

\* const connect = () => { mongoose.connect(...).then(...).catch(...) }
\* Issues one connect attempt and returns at once.
connect(n) == attempts' = attempts \o [k \in 1..n |-> "pending"]

\* The storage connection moves to state s (no move when it is already there).
Move(trace, s) == IF trace[Len(trace)] = s THEN trace ELSE Append(trace, s)

\* process.exit(code)
processExit(code) ==
  /\ exited' = TRUE
  /\ exitCode' = code

\* export default () => { ...; connect(); mongoose.connection.on('disconnected', connect) }
DatabaseConnection_RegistersTwice ==
  /\ ~exited
  /\ pc = "databaseConnection"
  /\ connect(1)
  /\ listeners' = listeners + 2
  /\ storageTrace' = Move(storageTrace, "Connecting")
  /\ pc' = "express"
  /\ UNCHANGED <<httpVars, disconnects, serverVars, exitVars, log>>

DatabaseConnection ==
  /\ ~exited
  /\ pc = "databaseConnection"
  /\ connect(1)
  /\ listeners' = listeners + 1
  /\ storageTrace' = Move(storageTrace, "Connecting")
  /\ pc' = "express"
  /\ UNCHANGED <<httpVars, disconnects, serverVars, exitVars, log>>

\* .then(() => { log.info('Succesfully connected to database.') })
StorageConnectSucceeds(i) ==
  /\ Idle
  /\ i \in 1..Len(attempts)
  /\ attempts[i] = "pending"
  /\ attempts' = [attempts EXCEPT ![i] = "ok"]
  /\ Emit("setupDatabase", "info", "Succesfully connected to database.")
  /\ storageTrace' = Move(storageTrace, "Connected")
  /\ UNCHANGED <<httpVars, pc, listeners, disconnects, serverVars, exitVars>>

\* .catch((error) => { log.error(...); return process.exit(1) })
StorageConnectFails_LogOnly(i) ==
  /\ Idle
  /\ i \in 1..Len(attempts)
  /\ attempts[i] = "pending"
  /\ attempts' = [attempts EXCEPT ![i] = "failed"]
  /\ Emit("setupDatabase", "error", "Error connecting to database")
  /\ UNCHANGED <<httpVars, pc, listeners, disconnects, storageTrace, serverVars, exitVars>>

StorageConnectFails_ReconnectLogOnly(i) ==
  /\ Idle
  /\ i \in 1..Len(attempts)
  /\ attempts[i] = "pending"
  /\ attempts' = [attempts EXCEPT ![i] = "failed"]
  /\ Emit("setupDatabase", "error", "Error connecting to database")
  /\ IF i = 1 THEN processExit(1) ELSE UNCHANGED exitVars
  /\ UNCHANGED <<httpVars, pc, listeners, disconnects, storageTrace, serverVars>>

StorageConnectFails(i) ==
  /\ Idle
  /\ i \in 1..Len(attempts)
  /\ attempts[i] = "pending"
  /\ attempts' = [attempts EXCEPT ![i] = "failed"]
  /\ Emit("setupDatabase", "error", "Error connecting to database")
  /\ processExit(1)
  /\ UNCHANGED <<httpVars, pc, listeners, disconnects, storageTrace, serverVars>>

\* The driver emits 'disconnected': every registered listener (connect) runs once.
StorageDisconnected_NoReconnect ==
  /\ Idle
  /\ listeners > 0
  /\ disconnects < MaxDisconnects
  /\ disconnects' = disconnects + 1
  /\ storageTrace' = Move(storageTrace, "Disconnected")
  /\ UNCHANGED <<httpVars, pc, attempts, listeners, serverVars, exitVars, log>>

StorageDisconnected ==
  /\ Idle
  /\ listeners > 0
  /\ disconnects < MaxDisconnects
  /\ disconnects' = disconnects + 1
  /\ connect(listeners)
  /\ storageTrace' = IF listeners > 0
                     THEN Move(Move(storageTrace, "Disconnected"), "Connecting")
                     ELSE Move(storageTrace, "Disconnected")
  /\ UNCHANGED <<httpVars, pc, listeners, serverVars, exitVars, log>>

----
\* app.ts

\* this.loadConfig()
LoadConfig ==
  /\ ~exited
  /\ pc = "initialize"
  /\ pc' = "databaseConnection"
  /\ UNCHANGED <<httpVars, storageVars, serverVars, exitVars, log>>

\* const app = express(); const server = new ChattyServer(app); server.start()
CreateApp ==
  /\ ~exited
  /\ pc = "express"
  /\ pc' = "securityMiddleware"
  /\ UNCHANGED <<httpVars, storageVars, serverVars, exitVars, log>>

----
\* setupServer.ts

SecurityMiddleware ==
  /\ ~exited
  /\ pc = "securityMiddleware"
  /\ middleware' = middleware \o <<"cookieSession", "hpp", "helmet", "cors">>
  /\ pc' = "standardMiddleware"
  /\ UNCHANGED <<httpVars, storageVars, httpServer, boundPort, io, pubClient, subClient,
                 promiseAll, ssPc, exitVars, log>>

StandardMiddleware ==
  /\ ~exited
  /\ pc = "standardMiddleware"
  /\ middleware' = middleware \o <<"compression", "json", "urlencoded">>
  /\ pc' = "routeMiddleware"
  /\ UNCHANGED <<httpVars, storageVars, httpServer, boundPort, io, pubClient, subClient,
                 promiseAll, ssPc, exitVars, log>>

RouteMiddleware ==
  /\ ~exited
  /\ pc = "routeMiddleware"
  /\ middleware' = Append(middleware, "routes")
  /\ pc' = "globalErrorHandler"
  /\ UNCHANGED <<httpVars, storageVars, httpServer, boundPort, io, pubClient, subClient,
                 promiseAll, ssPc, exitVars, log>>

GlobalErrorHandler_Swapped ==
  /\ ~exited
  /\ pc = "globalErrorHandler"
  /\ middleware' = middleware \o <<"errorTranslation", "notFound">>
  /\ pc' = "startServer"
  /\ UNCHANGED <<httpVars, storageVars, httpServer, boundPort, io, pubClient, subClient,
                 promiseAll, ssPc, exitVars, log>>

GlobalErrorHandler ==
  /\ ~exited
  /\ pc = "globalErrorHandler"
  /\ middleware' = middleware \o <<"notFound", "errorTranslation">>
  /\ pc' = "startServer"
  /\ UNCHANGED <<httpVars, storageVars, httpServer, boundPort, io, pubClient, subClient,
                 promiseAll, ssPc, exitVars, log>>

\* await Promise.all([pubClient.connect(), subClient.connect()]):
\* rejected as soon as one input is rejected, fulfilled once all are fulfilled.
PromiseAll_AllSettled(p, s) ==
  IF p \in {"connected", "failed"} /\ s \in {"connected", "failed"} THEN "fulfilled"
  ELSE "pending"

PromiseAll_Race(p, s) ==
  IF p = "connecting" THEN
     (IF s = "connected" THEN "fulfilled" ELSE IF s = "failed" THEN "rejected" ELSE "pending")
  ELSE IF p = "connected" THEN "fulfilled" ELSE "rejected"

PromiseAll(p, s) ==
  IF p = "failed" \/ s = "failed" THEN "rejected"
  ELSE IF p = "connected" /\ s = "connected" THEN "fulfilled"
  ELSE "pending"

\* A settled promise keeps its state; the await resumes startServer when
\* the promise settles.
Settle(p, s) ==
  /\ promiseAll' = IF promiseAll = "pending" THEN PromiseAll(p, s) ELSE promiseAll
  /\ ssPc' = IF promiseAll = "pending" /\ promiseAll' = "fulfilled" THEN "attachAdapter"
             ELSE IF promiseAll = "pending" /\ promiseAll' = "rejected" THEN "catch"
             ELSE ssPc

\* startServer up to its first suspension: new http.Server(app), then
\* createSocketIO up to the await (new Server, createClient, duplicate,
\* both connect() calls started).
StartServer ==
  /\ ~exited
  /\ pc = "startServer"
  /\ httpServer' = "created"
  /\ io' = [io EXCEPT !.created = TRUE]
  /\ pubClient' = "connecting"
  /\ subClient' = "connecting"
  /\ promiseAll' = "pending"
  /\ ssPc' = "awaitCreateSocketIO"
  /\ pc' = "idle"
  /\ UNCHANGED <<httpVars, storageVars, middleware, boundPort, exitVars, log>>

PubConnectSucceeds ==
  /\ Idle
  /\ pubClient = "connecting"
  /\ pubClient' = "connected"
  /\ Settle(pubClient', subClient)
  /\ UNCHANGED <<httpVars, pc, storageVars, middleware, httpServer, boundPort, io, subClient, exitVars, log>>

PubConnectFails ==
  /\ Idle
  /\ pubClient = "connecting"
  /\ pubClient' = "failed"
  /\ Settle(pubClient', subClient)
  /\ UNCHANGED <<httpVars, pc, storageVars, middleware, httpServer, boundPort, io, subClient, exitVars, log>>

SubConnectSucceeds ==
  /\ Idle
  /\ subClient = "connecting"
  /\ subClient' = "connected"
  /\ Settle(pubClient, subClient')
  /\ UNCHANGED <<httpVars, pc, storageVars, middleware, httpServer, boundPort, io, pubClient, exitVars, log>>

SubConnectFails ==
  /\ Idle
  /\ subClient = "connecting"
  /\ subClient' = "failed"
  /\ Settle(pubClient, subClient')
  /\ UNCHANGED <<httpVars, pc, storageVars, middleware, httpServer, boundPort, io, pubClient, exitVars, log>>

\* io.adapter(createAdapter(pubClient, subClient)); return io
AttachAdapter ==
  /\ ~exited
  /\ ssPc = "attachAdapter"
  /\ io' = [io EXCEPT !.adapter = TRUE]
  /\ ssPc' = "socketIOConnections"
  /\ UNCHANGED <<httpVars, pc, storageVars, middleware, httpServer, boundPort, pubClient, subClient,
                 promiseAll, exitVars, log>>

\* this.socketIOConnections(socketIO): empty body
SocketIOConnections ==
  /\ ~exited
  /\ ssPc = "socketIOConnections"
  /\ io' = [io EXCEPT !.hooked = TRUE]
  /\ ssPc' = "startHttpServer"
  /\ UNCHANGED <<httpVars, pc, storageVars, middleware, httpServer, boundPort, pubClient, subClient,
                 promiseAll, exitVars, log>>

\* log.info(`Server has started with process ...`); httpServer.listen(SERVER_PORT, cb)
StartHttpServer_GatedOnStorage ==
  /\ ~exited
  /\ ssPc = "startHttpServer"
  /\ attempts[1] = "ok"
  /\ Emit("setupServer", "info", "Server has started with process")
  /\ httpServer' = "listenCalled"
  /\ boundPort' = SERVER_PORT
  /\ ssPc' = "done"
  /\ UNCHANGED <<httpVars, pc, storageVars, middleware, io, pubClient, subClient, promiseAll, exitVars>>

StartHttpServer ==
  /\ ~exited
  /\ ssPc = "startHttpServer"
  /\ Emit("setupServer", "info", "Server has started with process")
  /\ httpServer' = "listenCalled"
  /\ boundPort' = SERVER_PORT
  /\ ssPc' = "done"
  /\ UNCHANGED <<httpVars, pc, storageVars, middleware, io, pubClient, subClient, promiseAll, exitVars>>

\* the listen callback: log.info(`Server running on port: ...`)
ListenCallback ==
  /\ Idle
  /\ httpServer = "listenCalled"
  /\ httpServer' = "listening"
  /\ Emit("setupServer", "info", "Server running on port")
  /\ UNCHANGED <<httpVars, pc, storageVars, middleware, boundPort, io, pubClient, subClient,
                 promiseAll, ssPc, exitVars>>

\* catch (error) { log.error(error) }
StartServerCatch_Exits ==
  /\ ~exited
  /\ ssPc = "catch"
  /\ Emit("setupServer", "error", "startServer error")
  /\ processExit(1)
  /\ ssPc' = "done"
  /\ UNCHANGED <<httpVars, pc, storageVars, middleware, httpServer, boundPort, io, pubClient,
                 subClient, promiseAll>>

StartServerCatch ==
  /\ ~exited
  /\ ssPc = "catch"
  /\ Emit("setupServer", "error", "startServer error")
  /\ ssPc' = "done"
  /\ UNCHANGED <<httpVars, pc, storageVars, middleware, httpServer, boundPort, io, pubClient,
                 subClient, promiseAll, exitVars>>

----
\* setupServer.ts: sessions

\* A client opens a persistent connection on the listening transport server:
\* every registered 'connection' listener runs once.
AcceptConnection ==
  /\ Idle
  /\ httpServer = "listening"
  /\ io.created
  /\ sessions < MaxSessions
  /\ sessions' = sessions + 1
  /\ hookCalls' = hookCalls + connectionListeners
  /\ UNCHANGED <<pc, storageVars, serverVars, exitVars, log, connectionListeners, req, served>>

----
\* setupServer.ts: the express pipeline

Methods == {"GET", "POST", "OPTIONS"}

Urls == {"/api/v1/known", "/missing", "/missing?page=2"}

\* Paths that aplicationRoutes(app) registers a handler for.
RegisteredRoutes == {"/api/v1/known"}

\* CustomError instances a route handler may throw.
CustomErrors ==
  {[kind |-> "CustomError", statusCode |-> sc, body |-> b] :
     sc \in {400, 401}, b \in {"{field: x}"}}

\* Any other error value.
PlainError == [kind |-> "Error", statusCode |-> 0, body |-> ""]

\* json({ limit: '50mb' }): an oversize body makes the parser raise an error.
PayloadTooLargeError == [kind |-> "PayloadTooLargeError", statusCode |-> 413, body |-> ""]

\* error instanceof CustomError
isCustomError(e) == e.kind = "CustomError"

\* error.serializeErrors()
serializeErrors(e) == e.body

\* `${req.originalUrl} not found`
notFoundMessage(url) == url \o " not found"

\* The stage the request is at.
Stage == middleware[req.idx]

InPipeline ==
  /\ ~exited
  /\ req.state = "active"
  /\ req.idx \in 1..Len(middleware)

\* next(): hand the request to the following stage.
nextStage(r) == [r EXCEPT !.idx = r.idx + 1]

visit(r) == [r EXCEPT !.visited = Append(r.visited, middleware[r.idx])]

\* The listener receives a request.
HttpRequest(m, u, o) ==
  /\ Idle
  /\ httpServer = "listening"
  /\ req.state # "active"
  /\ served < MaxRequests
  /\ served' = served + 1
  /\ req' = [NoRequest EXCEPT !.state = "active", !.method = m, !.url = u,
                              !.oversize = o, !.idx = 1]
  /\ UNCHANGED <<pc, storageVars, serverVars, exitVars, log, connectionListeners,
                 sessions, hookCalls>>

\* cookieSession, hpp, helmet, compression, urlencoded: call next().
PassThroughStage ==
  /\ InPipeline
  /\ req.err = NoError
  /\ Stage \in {"cookieSession", "hpp", "helmet", "compression", "urlencoded"}
  /\ req' = nextStage(visit(req))
  /\ UNCHANGED <<pc, storageVars, serverVars, exitVars, log, connectionListeners,
                 sessions, hookCalls, served>>

\* cors({ ..., optionsSuccessStatus: 200, methods: [...] }): an OPTIONS request
\* is answered here with optionsSuccessStatus; any other request goes on.
CorsStage ==
  /\ InPipeline
  /\ req.err = NoError
  /\ Stage = "cors"
  /\ req' = IF req.method = "OPTIONS"
            THEN [visit(req) EXCEPT !.state = "done",
                    !.res = [sent |-> TRUE, status |-> OptionsSuccessStatus, body |-> ""]]
            ELSE nextStage(visit(req))
  /\ UNCHANGED <<pc, storageVars, serverVars, exitVars, log, connectionListeners,
                 sessions, hookCalls, served>>

\* json({ limit: '50mb' }): "Each request must not exceed 50Mb otherwise will
\* drop an error".
JsonStage ==
  /\ InPipeline
  /\ req.err = NoError
  /\ Stage = "json"
  /\ req' = IF req.oversize
            THEN [nextStage(visit(req)) EXCEPT !.err = PayloadTooLargeError,
                                                !.raised = PayloadTooLargeError]
            ELSE nextStage(visit(req))
  /\ UNCHANGED <<pc, storageVars, serverVars, exitVars, log, connectionListeners,
                 sessions, hookCalls, served>>

\* aplicationRoutes(app): no route matches the request, which goes on.
RouteMiss ==
  /\ InPipeline
  /\ req.err = NoError
  /\ Stage = "routes"
  /\ req.url \notin RegisteredRoutes
  /\ req' = nextStage(visit(req))
  /\ UNCHANGED <<pc, storageVars, serverVars, exitVars, log, connectionListeners,
                 sessions, hookCalls, served>>

\* aplicationRoutes(app): a route matches; its handler answers, or throws e
\* (express-async-errors hands a thrown error to next(e)).
RouteHandler(e) ==
  /\ InPipeline
  /\ req.err = NoError
  /\ Stage = "routes"
  /\ req.url \in RegisteredRoutes
  /\ req' = IF e = NoError
            THEN [visit(req) EXCEPT !.state = "done",
                    !.res = [sent |-> TRUE, status |-> 200, body |-> "ok"]]
            ELSE [nextStage(visit(req)) EXCEPT !.err = e, !.raised = e]
  /\ UNCHANGED <<pc, storageVars, serverVars, exitVars, log, connectionListeners,
                 sessions, hookCalls, served>>

\* app.all('*', (req, res) => res.status(NOT_FOUND).json({ message: ... }))
NotFoundStage_FixedMessage ==
  /\ InPipeline
  /\ req.err = NoError
  /\ Stage = "notFound"
  /\ req' = [visit(req) EXCEPT !.state = "done",
               !.res = [sent |-> TRUE, status |-> NOT_FOUND, body |-> "not found"]]
  /\ UNCHANGED <<pc, storageVars, serverVars, exitVars, log, connectionListeners,
                 sessions, hookCalls, served>>

NotFoundStage ==
  /\ InPipeline
  /\ req.err = NoError
  /\ Stage = "notFound"
  /\ req' = [visit(req) EXCEPT !.state = "done",
               !.res = [sent |-> TRUE, status |-> NOT_FOUND,
                        body |-> notFoundMessage(req.url)]]
  /\ UNCHANGED <<pc, storageVars, serverVars, exitVars, log, connectionListeners,
                 sessions, hookCalls, served>>

\* app.use((error, _req, res, next) => { log.error(error);
\*   if (error instanceof CustomError) { res.status(...).json(...) } next() })
ErrorStage_WrongStatus ==
  /\ InPipeline
  /\ req.err # NoError
  /\ Stage = "errorTranslation"
  /\ Emit("setupServer", "error", "request error")
  /\ req' = IF isCustomError(req.err)
            THEN [nextStage(visit(req)) EXCEPT
                    !.res = [sent |-> TRUE, status |-> 500,
                             body |-> serializeErrors(req.err)],
                    !.events = <<"log", "respond", "next">>,
                    !.err = NoError]
            ELSE [nextStage(visit(req)) EXCEPT
                    !.events = <<"log", "next">>,
                    !.err = NoError]
  /\ UNCHANGED <<pc, storageVars, serverVars, exitVars, connectionListeners,
                 sessions, hookCalls, served>>

ErrorStage_RespondsToUnknown ==
  /\ InPipeline
  /\ req.err # NoError
  /\ Stage = "errorTranslation"
  /\ Emit("setupServer", "error", "request error")
  /\ req' = IF isCustomError(req.err)
            THEN [nextStage(visit(req)) EXCEPT
                    !.res = [sent |-> TRUE, status |-> req.err.statusCode,
                             body |-> serializeErrors(req.err)],
                    !.events = <<"log", "respond", "next">>,
                    !.err = NoError]
            ELSE [nextStage(visit(req)) EXCEPT
                    !.res = [sent |-> TRUE, status |-> 500, body |-> "error"],
                    !.events = <<"log", "respond", "next">>,
                    !.err = NoError]
  /\ UNCHANGED <<pc, storageVars, serverVars, exitVars, connectionListeners,
                 sessions, hookCalls, served>>

ErrorStage_NextOnlyWhenUnknown ==
  /\ InPipeline
  /\ req.err # NoError
  /\ Stage = "errorTranslation"
  /\ Emit("setupServer", "error", "request error")
  /\ req' = IF isCustomError(req.err)
            THEN [visit(req) EXCEPT
                    !.state = "done",
                    !.res = [sent |-> TRUE, status |-> req.err.statusCode,
                             body |-> serializeErrors(req.err)],
                    !.events = <<"log", "respond">>,
                    !.err = NoError]
            ELSE [nextStage(visit(req)) EXCEPT
                    !.events = <<"log", "next">>,
                    !.err = NoError]
  /\ UNCHANGED <<pc, storageVars, serverVars, exitVars, connectionListeners,
                 sessions, hookCalls, served>>

ErrorStage ==
  /\ InPipeline
  /\ req.err # NoError
  /\ Stage = "errorTranslation"
  /\ Emit("setupServer", "error", "request error")
  /\ req' = IF isCustomError(req.err)
            THEN [nextStage(visit(req)) EXCEPT
                    !.res = [sent |-> TRUE, status |-> req.err.statusCode,
                             body |-> serializeErrors(req.err)],
                    !.events = <<"log", "respond", "next">>,
                    !.err = NoError]
            ELSE [nextStage(visit(req)) EXCEPT
                    !.events = <<"log", "next">>,
                    !.err = NoError]
  /\ UNCHANGED <<pc, storageVars, serverVars, exitVars, connectionListeners,
                 sessions, hookCalls, served>>

\* express skips the stages that do not apply: ordinary stages while an error
\* is travelling, the four-argument error stage while none is.
SkipStage ==
  /\ InPipeline
  /\ (req.err # NoError) # (Stage = "errorTranslation")
  /\ req' = nextStage(req)
  /\ UNCHANGED <<pc, storageVars, serverVars, exitVars, log, connectionListeners,
                 sessions, hookCalls, served>>

\* No stage is left: the request leaves the stages registered by the source
\* with the response as the stages left it.
EndOfPipeline ==
  /\ ~exited
  /\ req.state = "active"
  /\ req.idx > Len(middleware)
  /\ req' = [req EXCEPT !.state = "done", !.visited = Append(req.visited, "end")]
  /\ UNCHANGED <<pc, storageVars, serverVars, exitVars, log, connectionListeners,
                 sessions, hookCalls, served>>

----
Next ==
  \/ LoadConfig
  \/ DatabaseConnection
  \/ CreateApp
  \/ SecurityMiddleware
  \/ StandardMiddleware
  \/ RouteMiddleware
  \/ GlobalErrorHandler
  \/ StartServer
  \/ \E i \in 1..(MaxDisconnects + 2) : StorageConnectSucceeds(i)
  \/ \E i \in 1..(MaxDisconnects + 2) : StorageConnectFails(i)
  \/ StorageDisconnected
  \/ PubConnectSucceeds
  \/ PubConnectFails
  \/ SubConnectSucceeds
  \/ SubConnectFails
  \/ AttachAdapter
  \/ SocketIOConnections
  \/ StartHttpServer
  \/ ListenCallback
  \/ StartServerCatch
  \/ AcceptConnection
  \/ \E m \in Methods, u \in Urls, o \in BOOLEAN : HttpRequest(m, u, o)
  \/ PassThroughStage
  \/ CorsStage
  \/ JsonStage
  \/ RouteMiss
  \/ \E e \in {NoError, PlainError} \cup CustomErrors : RouteHandler(e)
  \/ NotFoundStage
  \/ ErrorStage
  \/ SkipStage
  \/ EndOfPipeline

Spec == Init /\ [][Next]_vars

----
\* Derived notions used by the properties below.

ListenCalled == httpServer \in {"listenCalled", "listening"}

InitialConnect == IF Len(attempts) >= 1 THEN attempts[1] ELSE "none"

InFlight == {i \in 1..Len(attempts) : attempts[i] = "pending"}

BrokerFailed == pubClient = "failed" \/ subClient = "failed"

NoStorageFailure == \A i \in 1..Len(attempts) : attempts[i] # "failed"

MiddlewareComplete ==
  /\ Len(middleware) >= 2
  /\ middleware[Len(middleware) - 1] = "notFound"
  /\ middleware[Len(middleware)] = "errorTranslation"

SuccessfulBoot == InitialConnect = "ok" /\ httpServer = "listening"

----
\* C1: whenever the initial storage connect attempt has failed, the listener
\* has not been bound: no state has both httpServer.listen called and the
\* initial storage connect failed.
C1_NoListenerWhenInitialConnectFails ==
  ~(ListenCalled /\ InitialConnect = "failed")

\* C2: after a successful boot (initial storage connect succeeded, listener
\* up), no disconnect event and no reconnect outcome terminates the process.
C2_DisconnectNeverFatal ==
  SuccessfulBoot => ~exited

\* C3: the 'disconnected' listener is registered exactly once at startup and
\* never again, and every delivered 'disconnected' event has issued exactly
\* one connect attempt: attempts = 1 initial + one per event.
C3_OneAttemptPerDisconnect ==
  pc \notin {"initialize", "databaseConnection"} =>
    /\ listeners = 1
    /\ Len(attempts) = 1 + disconnects

C3_Witness ==
  /\ disconnects >= 2
  /\ InitialConnect = "ok"
  /\ Len(attempts) = 1 + disconnects

\* C4: if either broker client failed to connect, the adapter is not attached
\* (io.adapter is not called, nor about to be) and the listener is not bound
\* (startHttpServer is not called, nor about to be).
C4_BrokerFailureHaltsSetup ==
  BrokerFailed =>
    /\ ~io.adapter
    /\ ~ListenCalled
    /\ ssPc \notin {"attachAdapter", "socketIOConnections", "startHttpServer"}

C4_Witness ==
  /\ BrokerFailed
  /\ pubClient # "connecting"
  /\ subClient # "connecting"
  /\ ssPc = "done"
  /\ Idle

\* C5: bridge setup is all-or-nothing: once startServer is suspended both
\* clients have been started; the adapter is attached (or about to be) only
\* when both clients are connected; and as soon as either client has failed
\* the combined promise is rejected and, when the event loop is idle again,
\* startServer has already ended in its catch, whatever the other client's
\* state.
C5_BridgeAllOrNothing ==
  /\ ssPc # "notStarted" => (pubClient # "none" /\ subClient # "none")
  /\ (io.adapter \/ ssPc = "attachAdapter") =>
        (pubClient = "connected" /\ subClient = "connected")
  /\ BrokerFailed => promiseAll = "rejected"
  /\ (BrokerFailed /\ Idle) =>
        (ssPc = "done" /\ Logged("setupServer", "error", "startServer error"))
  /\ promiseAll = "fulfilled" => ~BrokerFailed

C5_Witness ==
  /\ subClient = "failed"
  /\ pubClient = "connecting"
  /\ promiseAll = "rejected"
  /\ ssPc = "done"
  /\ ~io.adapter

\* C7: at most one storage connect attempt is in flight in every state.
C7_ConnectAttemptsSerialized ==
  Cardinality(InFlight) <= 1

\* C8: startup steps are strictly sequential, each step's pending operation
\* resolved before the next begins: the storage connect has resolved before
\* the middleware pipeline is built, the pipeline is complete before the
\* listener is constructed, the listener exists before the transport server,
\* the transport server before the bridge, the bridge is open and attached
\* before the listener is bound, and the initial storage connect has resolved
\* before the listener is bound.
C8_StartupStrictlySequential ==
  /\ Len(middleware) > 0 => InitialConnect \in {"ok", "failed"}
  /\ httpServer # "none" => MiddlewareComplete
  /\ io.created => httpServer # "none"
  /\ pubClient # "none" => io.created
  /\ ListenCalled => (io.adapter /\ pubClient = "connected" /\ subClient = "connected")
  /\ ListenCalled => InitialConnect \in {"ok", "failed"}

\* C9: a bridge setup failure is caught and logged and never terminates the
\* process: once startServer has ended on a rejected bridge the error is in
\* the log, and while a broker client has failed and no storage connect has
\* failed, the process has not exited.
C9_BridgeFailureNotFatal ==
  /\ (promiseAll = "rejected" /\ ssPc = "done") =>
        Logged("setupServer", "error", "startServer error")
  /\ (BrokerFailed /\ NoStorageFailure) => (~exited /\ exitCode = 0)

C9_Witness ==
  /\ BrokerFailed
  /\ ssPc = "done"
  /\ Logged("setupServer", "error", "startServer error")
  /\ disconnects >= 1
  /\ \A i \in 1..Len(attempts) : attempts[i] = "ok"
  /\ ~exited

\* C10: if the initial storage connect attempt has failed, an error has been
\* logged by the storage manager and the process has exited with code 1.
C10_InitialConnectFailureFatal ==
  InitialConnect = "failed" =>
    /\ Logged("setupDatabase", "error", "Error connecting to database")
    /\ exited
    /\ exitCode = 1

C10_Witness ==
  /\ InitialConnect = "failed"
  /\ exited
  /\ exitCode = 1

----
\* Consecutive states of the storage connection.
StorageMoves == {<<storageTrace[k], storageTrace[k + 1]>> : k \in 1..(Len(storageTrace) - 1)}

StorageState == storageTrace[Len(storageTrace)]

C17_EveryConnectFailureFatal ==
  \A i \in 1..Len(attempts) :
    attempts[i] = "failed" =>
      /\ Logged("setupDatabase", "error", "Error connecting to database")
      /\ exited
      /\ exitCode = 1

C17_Witness ==
  /\ Len(attempts) >= 2
  /\ attempts[1] = "ok"
  /\ attempts[2] = "failed"
  /\ exited
  /\ exitCode = 1

\* C18: httpServer.listen is called exactly when the bridge is up (both
\* broker clients connected, adapter attached, hook method called), whatever
\* the state of the storage connection: once startServer has reached
\* startHttpServer the call is enabled, also while the initial storage
\* connect is still pending.
C18_ListenNotGatedOnStorage ==
  /\ ListenCalled =>
       (io.adapter /\ io.hooked /\ pubClient = "connected" /\ subClient = "connected")
  /\ (ssPc = "startHttpServer" /\ ~exited) => ENABLED StartHttpServer

C18_Witness ==
  /\ ListenCalled
  /\ InitialConnect = "pending"
  /\ StorageState = "Connecting"

----
\* Requests.

Done == req.state = "done"

Unmatched == req.url \notin RegisteredRoutes

NotFoundResponse(url) ==
  [sent |-> TRUE, status |-> 404, body |-> url \o " not found"]

Count(seq, x) == Cardinality({k \in 1..Len(seq) : seq[k] = x})

IndexOf(seq, x) == CHOOSE k \in 1..Len(seq) : seq[k] = x

\* C12: a session connect callback is registered once on the transport
\* server and has been invoked exactly once for each accepted persistent
\* connection.
C12_HookInvokedPerConnection ==
  sessions > 0 => (connectionListeners = 1 /\ hookCalls = sessions)

\* C13 (as stated): every handled request whose path matches no registered
\* route, whatever its method, got status 404 and the body
\* {message: "<original url> not found"}.
C13_UnmatchedAlways404 ==
  (Done /\ Unmatched) => req.res = NotFoundResponse(req.url)

\* C13 (amended): every request that reaches the catch-all stage got status
\* 404 and the body {message: "<original url> not found"} with the original
\* url verbatim; every request with an unmatched path reaches that stage
\* unless it is an OPTIONS request (answered 200 by the cors stage) or an
\* earlier stage raised an error (the json body limit).
C13_CatchAll404 ==
  /\ (\E k \in 1..Len(req.visited) : req.visited[k] = "notFound") =>
        (Done /\ Unmatched /\ req.res = NotFoundResponse(req.url))
  /\ (Done /\ Unmatched /\ req.method # "OPTIONS" /\ ~req.oversize) =>
        req.res = NotFoundResponse(req.url)

C13_Witness ==
  /\ Done
  /\ req.method = "POST"
  /\ req.url = "/missing?page=2"
  /\ req.res = NotFoundResponse("/missing?page=2")

\* C14: every CustomError with status code S and serialized body B that has
\* passed the error stage left the response sent with status S and body B.
C14_CustomErrorSerialized ==
  (req.raised.kind = "CustomError" /\ req.events # <<>>) =>
     /\ req.res.sent
     /\ req.res.status = req.raised.statusCode
     /\ req.res.body = req.raised.body

C14_Witness ==
  /\ Done
  /\ req.raised.kind = "CustomError"
  /\ req.raised.statusCode = 400
  /\ req.res = [sent |-> TRUE, status |-> 400, body |-> "{field: x}"]

\* C15: every error that is not a CustomError and has passed the error stage
\* was logged, left the response unwritten (no status, no body), and control
\* went on to the next handler.
C15_UnknownErrorPassedOn ==
  (req.raised.kind \notin {"none", "CustomError"} /\ req.events # <<>>) =>
     /\ Logged("setupServer", "error", "request error")
     /\ req.res = [sent |-> FALSE, status |-> 0, body |-> ""]
     /\ req.events = <<"log", "next">>
     /\ req.idx > IndexOf(middleware, "errorTranslation")

C15_Witness ==
  /\ Done
  /\ req.raised.kind = "Error"
  /\ req.events = <<"log", "next">>
  /\ ~req.res.sent

\* C16: stages are registered in the fixed order security, standard, routes,
\* not-found, error-translation; once the listener is bound the whole list is
\* registered with not-found and error-translation as its last two entries;
\* and a request runs the stages in that order.
StageOrder ==
  <<"cookieSession", "hpp", "helmet", "cors", "compression", "json", "urlencoded",
    "routes", "notFound", "errorTranslation", "end">>

C16_StageOrder ==
  /\ Len(middleware) <= 10
  /\ \A k \in 1..Len(middleware) : middleware[k] = StageOrder[k]
  /\ (httpServer # "none") =>
        /\ Len(middleware) = 10
        /\ middleware[9] = "notFound"
        /\ middleware[10] = "errorTranslation"
  /\ \A j, k \in 1..Len(req.visited) :
        j < k => IndexOf(StageOrder, req.visited[j]) < IndexOf(StageOrder, req.visited[k])

C16_Witness ==
  /\ Done
  /\ req.visited = <<"cookieSession", "hpp", "helmet", "cors", "compression", "json",
                     "urlencoded", "routes", "errorTranslation", "end">>

\* C19: the error stage logs every error it receives and calls next() exactly
\* once per error of either kind; it writes at most one response, and for a
\* CustomError the response is written before next() is called; every raised
\* error has passed the stage by the time the request is done.
C19_ErrorStageLogsAndContinues ==
  /\ req.events # <<>> =>
       /\ req.raised # NoError
       /\ Count(req.events, "log") = 1
       /\ Count(req.events, "next") = 1
       /\ Count(req.events, "respond") <= 1
       /\ Logged("setupServer", "error", "request error")
       /\ (req.raised.kind = "CustomError") =>
             /\ Count(req.events, "respond") = 1
             /\ IndexOf(req.events, "respond") < IndexOf(req.events, "next")
             /\ req.res.sent
  /\ (Done /\ req.raised # NoError) => req.events # <<>>

C19_Witness ==
  /\ Done
  /\ req.raised.kind = "CustomError"
  /\ req.events = <<"log", "respond", "next">>
  /\ req.visited[Len(req.visited)] = "end"

====
